---- MODULE Spec2Model ----
(***************************************************************************)
(* A model of the LoadBalancer-IP node finder.  The repository holds two   *)
(* entry points with the same helpers and a different order of steps in    *)
(* main: get_loadBalancerIP.go (coloured output) and unnamed/part_000      *)
(* (plain output).  One run of one entry point is modelled, together with  *)
(* the spinner goroutine started by loadingAnimation, the k8s.inventory    *)
(* file, and the outcomes of the external commands the run executes.       *)
(***************************************************************************)
EXTENDS Integers, Sequences, FiniteSets, TLC

VARIABLES
    entry,            \* which main is running
    pc,               \* position of the main goroutine
    exitCode,         \* <<>> while running, <<c>> once the process has exited
    ansibleUsername,  \* main: ansibleUsername
    nodes,            \* main: nodes
    option,           \* main: option
    lbIPs,            \* main: lbIPs
    arpInterface,     \* main: arpInterface (a text: a sequence of lines)
    file,             \* the k8s.inventory file on disk
    created,          \* what this run wrote of k8s.inventory: "no", "partial", "whole"
    createCalls,      \* calls of createInventoryFile so far
    removeCalls,      \* calls of removeInventoryFile so far
    disc,             \* the discovery command as executed: target, err, out
    i,                \* runARPCommandOnAllNodes: index of the outer loop
    j,                \* runARPCommandOnAllNodes: index of the inner loop
    probes,           \* the arping commands executed so far, in order
    last,             \* err and output marker of the latest arping command
    hostingNodes,     \* runARPCommandOnAllNodes: hostingNodes
    table,            \* the rows rendered by table.Render, once rendered
    spPc,             \* position of the spinner goroutine
    spIdx,            \* spinner: index into chars of the next character
    stop,             \* channel stop is closed
    acks,             \* values sent on channel done so far
    stopCalls,        \* calls of the function loadingAnimation returned
    emitSinceStop,    \* "Working" lines printed since close(stop)
    spinDuringTable   \* a "Working" line was printed while the table was

vars == <<entry, pc, exitCode, ansibleUsername, nodes, option, lbIPs,
          arpInterface, file, created, createCalls, removeCalls, disc, i, j,
          probes, last, hostingNodes, table, spPc, spIdx, stop, acks,
          stopCalls, emitSinceStop, spinDuringTable>>

(***************************************************************************)
(* Bounds of the model.                                                    *)
(***************************************************************************)
\* The longest node list and candidate list of a whole run (Spec, FairSpec).
MaxNodes == 1
MaxIPs == 1

\* The longest node list and candidate list of a sweep on its own (SweepSpec).
MaxSweepNodes == 2
MaxSweepIPs == 2

Colour == "get_loadBalancerIP.go"
Plain == "part_000"
Entries == {Colour, Plain}

Users == {"alice"}
NodeLists(n) == {[x \in 1..k |-> x] : k \in 0..n}

\* An IP address is the pair of its first character and the rest.
IPs == {<<"7", "1.2.3">>, <<"8", "9.9.9">>}
EmptyField == <<"", "">>

SeqsUpTo(S, n) == UNION {[1..k -> S] : k \in 0..n}

(***************************************************************************)
(* The order of the steps of main in the two entry points.                 *)
(***************************************************************************)
StepsColour ==
    <<"setup", "username", "getAllNodes", "createInventoryFile",
      "getInterfaceName", "option", "loadingAnimation", "runARP">>

StepsPlain ==
    <<"setup", "username", "getInterfaceName", "option", "getAllNodes",
      "createInventoryFile", "loadingAnimation", "runARP">>

Steps(e) == IF e = Colour THEN StepsColour ELSE StepsPlain

IndexOf(seq, x) == CHOOSE k \in 1..Len(seq) : seq[k] = x

\* The step of main that follows step s when s does not abort.
After(e, s) == Steps(e)[IndexOf(Steps(e), s) + 1]

(***************************************************************************)
(* The inventory file: createInventoryFile and removeInventoryFile.        *)
(***************************************************************************)
Absent == [exists |-> FALSE, lines |-> <<>>]

Header == <<"[k8s]">>

\* fmt.Sprintf("%s ansible_user=%s\n", node, ansibleUsername)
Record(node, user) == <<node, "ansible_user", user>>

InventoryLines(ns, user) ==
    <<Header>> \o [x \in 1..Len(ns) |-> Record(ns[x], user)]

\* What a previous run may have left on disk.
StaleInventory ==
    [exists |-> TRUE, lines |-> InventoryLines(<<8, 9>>, "carol")]

\* The faults of one call: os.Create fails, or the first okWrites calls of
\* WriteString succeed and the next one fails (none fails when okWrites is
\* the number of lines to write).
Faults(ns) ==
    [createFails : BOOLEAN, okWrites : 0..(Len(ns) + 1)]

Min(a, b) == IF a < b THEN a ELSE b

createInventoryFile(ns, user, old, fault) ==
    LET all == InventoryLines(ns, user)
    IN  IF fault.createFails
        THEN [file |-> old, wrote |-> "no", err |-> TRUE]
        ELSE [file |-> [exists |-> TRUE,
                        lines |-> SubSeq(all, 1, Min(fault.okWrites, Len(all)))],
              wrote |-> IF fault.okWrites < Len(all) THEN "partial" ELSE "whole",
              err |-> fault.okWrites < Len(all)]

removeInventoryFile(old, removeFails) ==
    IF old.exists
    THEN IF removeFails
         THEN [file |-> old, err |-> TRUE]
         ELSE [file |-> Absent, err |-> FALSE]
    ELSE [file |-> old, err |-> FALSE]

(***************************************************************************)
(* Interface discovery: the command and the parsing of its output.  A text *)
(* is the sequence of its lines; "" is a line of white space only.         *)
(***************************************************************************)
\* The hosts of group k8s as the inventory file lists them.
Hosts(f) ==
    IF f.exists /\ Len(f.lines) >= 1 /\ f.lines[1] = Header
    THEN [x \in 1..(Len(f.lines) - 1) |-> f.lines[x + 1][1]]
    ELSE <<>>

\* The subscript of the host pattern "k8s[1]"; subscripts count from zero.
PatternIndex == 1

\* The host the pattern "k8s[1]" selects: <<>> when there is none.
DiscoveryTarget(f) ==
    IF Len(Hosts(f)) > PatternIndex
    THEN <<Hosts(f)[PatternIndex + 1]>>
    ELSE <<>>

RECURSIVE TrimLeft(_)
TrimLeft(t) ==
    IF t # <<>> /\ Head(t) = "" THEN TrimLeft(Tail(t)) ELSE t

RECURSIVE TrimRight(_)
TrimRight(t) ==
    IF t # <<>> /\ t[Len(t)] = "" THEN TrimRight(SubSeq(t, 1, Len(t) - 1)) ELSE t

\* strings.TrimSpace on a text
TrimSpace(t) == TrimRight(TrimLeft(t))

\* strings.Split(text, "\n"): the empty text splits into one empty line
Split(t) == IF t = <<>> THEN <<"">> ELSE t

\* get_loadBalancerIP.go: the third line of the trimmed output
ThirdLine(out) ==
    LET lines == Split(TrimSpace(out))
    IN  IF Len(lines) >= 3 THEN TrimSpace(<<lines[3]>>) ELSE <<>>

\* part_000: the whole trimmed output
WholeOutput(out) == TrimSpace(out)

getInterfaceNameStartingWithSeven(e, err, out) ==
    IF err THEN <<>>
    ELSE IF e = Colour THEN ThirdLine(out) ELSE WholeOutput(out)

\* The outputs of the discovery command the model draws from.
DiscoveryOutputs ==
    { <<>>,
      <<"warn">>,
      <<"hdr", "eth0", "eth1">>,
      <<"warn", "warn", "warn">>,
      <<"", "hdr", "eth0", "eth1", "">>,
      <<"hdr", "eth0", "", "eth1">> }

(***************************************************************************)
(* The candidate IPs.                                                      *)
(***************************************************************************)
Services == [type : {"LoadBalancer", "ClusterIP"}, ip : IPs \cup {EmptyField}]

\* strings.HasPrefix(ip, "7")
HasPrefixSeven(ip) == ip[1] = "7"

RECURSIVE getLoadBalancerIPsStartingWithSeven(_, _)
getLoadBalancerIPsStartingWithSeven(err, services) ==
    IF err \/ services = <<>> THEN <<>>
    ELSE LET s == Head(services)
             rest == getLoadBalancerIPsStartingWithSeven(err, Tail(services))
         IN  IF s.type = "LoadBalancer" /\ HasPrefixSeven(s.ip)
             THEN <<s.ip>> \o rest
             ELSE rest

\* strings.Split(line, ","): the fields between the commas; the empty line
\* yields one empty field.
getSpecificLoadBalancerIPs(fields) ==
    IF fields = <<>> THEN <<EmptyField>> ELSE fields

(***************************************************************************)
(* runARPCommandOnAllNodes: the loops and the classification of a probe.   *)
(***************************************************************************)
\* Advance with a break in place of the continue: the rest of the inner
\* loop is skipped after a probe.
AdvanceBreak(a, b, m) == <<a + 1, 1>>

\* The next pair of loop indices after the probe at <<a, b>>, the inner
\* loop running over m candidates.
Advance(a, b, m) == IF b < m THEN <<a, b + 1>> ELSE <<a + 1, 1>>

\* Hosting without the test for the marker: any failed probe counts.
HostingAnyFailure(err, failed) == err

\* err != nil and strings.Contains(string(out), "FAILED")
Hosting(err, failed) == err /\ failed

\* out and err of the loop body, outside the loop
NoOutcome == [err |-> FALSE, failed |-> FALSE]

\* No pair is left to probe.
SweepDone == i > Len(nodes) \/ lbIPs = <<>>

\* Spinner animation characters
chars == <<"|", "/", "-", "\\">>

\* SelectBranch with the send on done left out: the goroutine just returns.
SelectBranchNoAck(closed) == IF closed THEN "terminated" ELSE "print"

\* select: a receive from the closed channel stop is taken before default.
SelectBranch(closed) == IF closed THEN "send" ELSE "print"

(***************************************************************************)
(* The initial state: the process has started, nothing has run.            *)
(***************************************************************************)
Init ==
    /\ entry \in Entries
    /\ pc = "setup"
    /\ exitCode = <<>>
    /\ ansibleUsername = ""
    /\ nodes = <<>>
    /\ option = ""
    /\ lbIPs = <<>>
    /\ arpInterface = <<>>
    /\ file \in {Absent, StaleInventory}
    /\ created = "no"
    /\ createCalls = 0
    /\ removeCalls = 0
    /\ disc = [ran |-> FALSE, creates |-> 0, inventory |-> Absent,
               err |-> FALSE, out |-> <<>>]
    /\ i = 1
    /\ j = 1
    /\ probes = <<>>
    /\ last = NoOutcome
    /\ hostingNodes = <<>>
    /\ table = <<>>
    /\ spPc = "none"
    /\ spIdx = 1
    /\ stop = FALSE
    /\ acks = 0
    /\ stopCalls = 0
    /\ emitSinceStop = 0
    /\ spinDuringTable = FALSE

inputVars == <<ansibleUsername, nodes, option, lbIPs, arpInterface>>
fileVars == <<file, created, createCalls, removeCalls>>
sweepVars == <<i, j, probes, last, hostingNodes, table>>
spinVars == <<spPc, spIdx, stop, acks, stopCalls, emitSinceStop, spinDuringTable>>

\* os.Exit(code), or the return of main
Exit(code) == pc' = "exited" /\ exitCode' = <<code>>

\* Control moves on to the step after s.
Goto(s) == pc' = s /\ exitCode' = exitCode

(***************************************************************************)
(* The steps of main.                                                      *)
(***************************************************************************)
\* user.Current, clientcmd.BuildConfigFromFlags, kubernetes.NewForConfig
Setup ==
    /\ pc = "setup"
    /\ \E ok \in BOOLEAN :
          IF ok THEN Goto(After(entry, "setup")) ELSE Exit(1)
    /\ UNCHANGED <<entry, inputVars, fileVars, disc, sweepVars, spinVars>>

ReadUsername ==
    /\ pc = "username"
    /\ \E u \in Users : ansibleUsername' = u
    /\ Goto(After(entry, "username"))
    /\ UNCHANGED <<entry, nodes, option, lbIPs, arpInterface, fileVars, disc,
                   sweepVars, spinVars>>

GetAllNodes ==
    /\ pc = "getAllNodes"
    /\ \E err \in BOOLEAN, ns \in NodeLists(MaxNodes) :
          IF err
          THEN nodes' = <<>> /\ Exit(1)
          ELSE nodes' = ns /\ Goto(After(entry, "getAllNodes"))
    /\ UNCHANGED <<entry, ansibleUsername, option, lbIPs, arpInterface,
                   fileVars, disc, sweepVars, spinVars>>

CreateInventoryFile ==
    /\ pc = "createInventoryFile"
    /\ \E fault \in Faults(nodes) :
          LET r == createInventoryFile(nodes, ansibleUsername, file, fault)
          IN  /\ file' = r.file
              /\ created' = r.wrote
              /\ IF r.err
                 THEN Exit(1)
                 ELSE Goto(After(entry, "createInventoryFile"))
    /\ createCalls' = createCalls + 1
    /\ UNCHANGED <<entry, inputVars, removeCalls, disc, sweepVars, spinVars>>

GetInterfaceName ==
    /\ pc = "getInterfaceName"
    /\ \E err \in BOOLEAN, out \in DiscoveryOutputs :
          LET name == getInterfaceNameStartingWithSeven(entry, err, out)
          IN  /\ arpInterface' = name
              /\ disc' = [ran |-> TRUE, creates |-> createCalls,
                          inventory |-> file, err |-> err, out |-> out]
              /\ IF name = <<>>
                 THEN Exit(1)
                 ELSE Goto(After(entry, "getInterfaceName"))
    /\ UNCHANGED <<entry, ansibleUsername, nodes, option, lbIPs, fileVars,
                   sweepVars, spinVars>>

OptionYes ==
    /\ pc = "option"
    /\ option' = "yes"
    /\ \E err \in BOOLEAN, services \in SeqsUpTo(Services, MaxIPs) :
          lbIPs' = getLoadBalancerIPsStartingWithSeven(err, services)
    /\ Goto(After(entry, "option"))
    /\ UNCHANGED <<entry, ansibleUsername, nodes, arpInterface, fileVars, disc,
                   sweepVars, spinVars>>

OptionNo ==
    /\ pc = "option"
    /\ option' = "no"
    /\ \E fields \in SeqsUpTo(IPs, MaxIPs) :
          lbIPs' = getSpecificLoadBalancerIPs(fields)
    /\ Goto(After(entry, "option"))
    /\ UNCHANGED <<entry, ansibleUsername, nodes, arpInterface, fileVars, disc,
                   sweepVars, spinVars>>

OptionInvalid ==
    /\ pc = "option"
    /\ option' = "maybe"
    /\ Exit(1)
    /\ UNCHANGED <<entry, ansibleUsername, nodes, lbIPs, arpInterface, fileVars,
                   disc, sweepVars, spinVars>>

\* stopSpinner := loadingAnimation(); defer stopSpinner()
LoadingAnimation ==
    /\ pc = "loadingAnimation"
    /\ spPc' = "banner"
    /\ Goto(After(entry, "loadingAnimation"))
    /\ UNCHANGED <<entry, inputVars, fileVars, disc, sweepVars, spIdx, stop,
                   acks, stopCalls, emitSinceStop, spinDuringTable>>

\* One iteration of the inner loop: one arping command and its outcome.
Probe ==
    /\ pc = "runARP"
    /\ ~SweepDone
    /\ probes' = Append(probes, [node |-> nodes[i], ip |-> lbIPs[j],
                                 iface |-> arpInterface,
                                 user |-> ansibleUsername])
    /\ \E err \in BOOLEAN, failed \in BOOLEAN :
          /\ last' = [err |-> err, failed |-> failed]
          /\ hostingNodes' =
                IF Hosting(err, failed)
                THEN Append(hostingNodes, <<nodes[i], lbIPs[j]>>)
                ELSE hostingNodes
    /\ i' = Advance(i, j, Len(lbIPs))[1]
    /\ j' = Advance(i, j, Len(lbIPs))[2]
    /\ UNCHANGED <<entry, pc, exitCode, inputVars, fileVars, disc, table,
                   spinVars>>

\* The loops end (out and err go out of scope);
\* fmt.Println("\nHere is your result:") and the set-up of the table
TableBegin ==
    /\ pc = "runARP"
    /\ SweepDone
    /\ Goto("render")
    /\ last' = NoOutcome
    /\ UNCHANGED <<entry, inputVars, fileVars, disc, i, j, probes,
                   hostingNodes, table, spinVars>>

\* table.Append of every row and table.Render; runARPCommandOnAllNodes returns
TableRender ==
    /\ pc = "render"
    /\ table' = <<hostingNodes>>
    /\ Goto("removeInventoryFile")
    /\ UNCHANGED <<entry, inputVars, fileVars, disc, i, j, probes, last,
                   hostingNodes, spinVars>>

RemoveInventoryFile ==
    /\ pc = "removeInventoryFile"
    /\ \E removeFails \in BOOLEAN :
          file' = removeInventoryFile(file, removeFails).file
    /\ removeCalls' = removeCalls + 1
    /\ Goto("stopSpinner")
    /\ UNCHANGED <<entry, inputVars, created, createCalls, disc, sweepVars,
                   spinVars>>

\* The deferred stopSpinner: close(stop)
StopSpinner ==
    /\ pc = "stopSpinner"
    /\ stop' = TRUE
    /\ stopCalls' = stopCalls + 1
    /\ Goto("waitDone")
    /\ UNCHANGED <<entry, inputVars, fileVars, disc, sweepVars, spPc, spIdx,
                   acks, emitSinceStop, spinDuringTable>>

\* done <- struct{}{} in the goroutine meets <-done in stopSpinner
Handshake ==
    /\ pc = "waitDone"
    /\ spPc = "send"
    /\ acks' = acks + 1
    /\ spPc' = "terminated"
    /\ Goto("clear")
    /\ UNCHANGED <<entry, inputVars, fileVars, disc, sweepVars, spIdx, stop,
                   stopCalls, emitSinceStop, spinDuringTable>>

\* The spinner line is cleared, stopSpinner returns and main returns.
MainReturn ==
    /\ pc = "clear"
    /\ Exit(0)
    /\ UNCHANGED <<entry, inputVars, fileVars, disc, sweepVars, spinVars>>

(***************************************************************************)
(* The steps of the spinner goroutine.                                     *)
(***************************************************************************)
SpinnerBanner ==
    /\ spPc = "banner"
    /\ spPc' = "select"
    /\ UNCHANGED <<entry, pc, exitCode, inputVars, fileVars, disc, sweepVars,
                   spIdx, stop, acks, stopCalls, emitSinceStop, spinDuringTable>>

SpinnerSelect ==
    /\ spPc = "select"
    /\ spPc' = SelectBranch(stop)
    /\ spIdx' = 1
    /\ UNCHANGED <<entry, pc, exitCode, inputVars, fileVars, disc, sweepVars,
                   stop, acks, stopCalls, emitSinceStop, spinDuringTable>>

\* fmt.Printf("\rWorking %s", char) and time.Sleep
SpinnerPrint ==
    /\ spPc = "print"
    /\ emitSinceStop' = IF stop THEN emitSinceStop + 1 ELSE emitSinceStop
    /\ spinDuringTable' = (spinDuringTable \/ pc = "render")
    /\ IF spIdx < Len(chars)
       THEN spIdx' = spIdx + 1 /\ spPc' = spPc
       ELSE spIdx' = 1 /\ spPc' = "select"
    /\ UNCHANGED <<entry, pc, exitCode, inputVars, fileVars, disc, sweepVars,
                   stop, acks, stopCalls>>

Spinner == SpinnerBanner \/ SpinnerSelect \/ SpinnerPrint

Next ==
    \/ Setup
    \/ ReadUsername
    \/ GetAllNodes
    \/ CreateInventoryFile
    \/ GetInterfaceName
    \/ OptionYes
    \/ OptionNo
    \/ OptionInvalid
    \/ LoadingAnimation
    \/ Probe
    \/ TableBegin
    \/ TableRender
    \/ RemoveInventoryFile
    \/ StopSpinner
    \/ Handshake
    \/ MainReturn
    \/ SpinnerBanner
    \/ SpinnerSelect
    \/ SpinnerPrint

Spec == Init /\ [][Next]_vars

(***************************************************************************)
(* runARPCommandOnAllNodes on its own: a run of either entry point at the  *)
(* call of runARPCommandOnAllNodes (the inventory written, the interface   *)
(* discovered, the candidates chosen, the spinner goroutine just started), *)
(* followed by the steps of runARPCommandOnAllNodes alone.                 *)
(***************************************************************************)
SweepInit ==
    /\ entry \in Entries
    /\ pc = "runARP"
    /\ exitCode = <<>>
    /\ ansibleUsername \in Users
    /\ nodes \in NodeLists(MaxSweepNodes)
    /\ \/ /\ option = "yes"
          /\ \E err \in BOOLEAN, services \in SeqsUpTo(Services, MaxSweepIPs) :
                lbIPs = getLoadBalancerIPsStartingWithSeven(err, services)
       \/ /\ option = "no"
          /\ \E fields \in SeqsUpTo(IPs, MaxSweepIPs) :
                lbIPs = getSpecificLoadBalancerIPs(fields)
    /\ file = [exists |-> TRUE, lines |-> InventoryLines(nodes, ansibleUsername)]
    /\ created = "whole"
    /\ createCalls = 1
    /\ removeCalls = 0
    /\ \E out \in DiscoveryOutputs :
          /\ arpInterface = getInterfaceNameStartingWithSeven(entry, FALSE, out)
          /\ arpInterface # <<>>
          /\ \/ /\ entry = Colour
                /\ disc = [ran |-> TRUE, creates |-> 1, inventory |-> file,
                           err |-> FALSE, out |-> out]
             \/ /\ entry = Plain
                /\ \E old \in {Absent, StaleInventory} :
                      disc = [ran |-> TRUE, creates |-> 0, inventory |-> old,
                              err |-> FALSE, out |-> out]
    /\ i = 1
    /\ j = 1
    /\ probes = <<>>
    /\ last = NoOutcome
    /\ hostingNodes = <<>>
    /\ table = <<>>
    /\ spPc = "banner"
    /\ spIdx = 1
    /\ stop = FALSE
    /\ acks = 0
    /\ stopCalls = 0
    /\ emitSinceStop = 0
    /\ spinDuringTable = FALSE

SweepNext ==
    \/ Probe
    \/ TableBegin
    \/ TableRender

SweepSpec == SweepInit /\ [][SweepNext]_vars

\* The Go scheduler runs every runnable goroutine: the spinner goroutine
\* keeps stepping, and a send that meets a waiting receive completes.
FairSpec == Spec /\ WF_vars(Spinner) /\ WF_vars(Handshake)

(***************************************************************************)
(* Properties.                                                             *)
(***************************************************************************)
\* The pairs of ns and cs in row-major order, ns being the outer loop.
RowMajor(ns, cs) ==
    [k \in 1..(Len(ns) * Len(cs)) |->
        <<ns[((k - 1) \div Len(cs)) + 1], cs[((k - 1) % Len(cs)) + 1]>>]

ProbePairs == [k \in 1..Len(probes) |-> <<probes[k].node, probes[k].ip>>]

\* runARPCommandOnAllNodes has left its loops.
SweepOver ==
    \/ pc \in {"render", "removeInventoryFile", "stopSpinner", "waitDone", "clear"}
    \/ pc = "exited" /\ exitCode = <<0>>

RECURSIVE IsSubseq(_, _)
IsSubseq(s, t) ==
    IF s = <<>> THEN TRUE
    ELSE IF t = <<>> THEN FALSE
    ELSE IF Head(s) = Head(t) THEN IsSubseq(Tail(s), Tail(t))
    ELSE IsSubseq(s, Tail(t))

\* C1: the probes executed so far are the first pairs of the row-major
\* enumeration of nodes x lbIPs (nodes outer, candidates inner), one probe
\* per pair, and once the loops are left every pair has been probed, so
\* exactly |nodes| * |lbIPs| probes are issued whatever their outcomes.
C1_RowMajorProbes ==
    LET rm == RowMajor(nodes, lbIPs)
    IN  /\ Len(probes) <= Len(rm)
        /\ ProbePairs = SubSeq(rm, 1, Len(probes))
        /\ SweepOver => Len(probes) = Len(nodes) * Len(lbIPs)

\* C1 witness: a sweep over two nodes and two different candidates has
\* ended after four probes of which the first was classified as hosting and
\* the others were not.
C1_Witness ==
    /\ pc = "render"
    /\ Len(nodes) = 2 /\ Len(lbIPs) = 2 /\ lbIPs[1] # lbIPs[2]
    /\ Len(probes) = 4
    /\ hostingNodes = <<<<nodes[1], lbIPs[1]>>>>

\* C2: hostingNodes starts empty; every probe appends its (node, ip) pair
\* exactly when the command failed and its output held "FAILED", and leaves
\* hostingNodes alone otherwise; no other step changes hostingNodes, so it
\* is a subsequence of the probed pairs in probe order; the rendered table
\* holds hostingNodes as it is.
C2_ResultSet ==
    /\ hostingNodes = <<>>
    /\ [](IsSubseq(hostingNodes, ProbePairs))
    /\ [][ /\ Len(probes') = Len(probes) + 1 =>
                hostingNodes' =
                    IF last'.err /\ last'.failed
                    THEN Append(hostingNodes, ProbePairs'[Len(probes')])
                    ELSE hostingNodes
           /\ probes' = probes => hostingNodes' = hostingNodes
           /\ table' # table => table' = <<hostingNodes>> ]_vars

\* C2 witness: the latest of at least two probes failed without the marker
\* and is the only probe so far that is not in hostingNodes.
C2_Witness ==
    /\ pc = "runARP"
    /\ last = [err |-> TRUE, failed |-> FALSE]
    /\ Len(probes) >= 2
    /\ Len(hostingNodes) = Len(probes) - 1

\* C3 (as claimed): when the process has exited after createInventoryFile
\* wrote the whole of k8s.inventory in this run, removeInventoryFile has been
\* called exactly once and no k8s.inventory is left.
C3_RemovedOnEveryExit ==
    (pc = "exited" /\ created = "whole") => (removeCalls = 1 /\ ~file.exists)

\* C4 (as claimed): a run that ended on an answer other than "yes" and "no"
\* exited non-zero and never called createInventoryFile.
C4_InvalidOptionBeforeInventory ==
    (pc = "exited" /\ option = "maybe") =>
        (exitCode = <<1>> /\ createCalls = 0 /\ created = "no")

\* C5 (as claimed): after a call of createInventoryFile (and before the file
\* is removed) either the file holds the header and a record of every node,
\* or the call failed and the file is not a partially written inventory
\* (a proper prefix of those lines).
C5_AtomicCreate ==
    LET full == InventoryLines(nodes, ansibleUsername)
    IN  (createCalls >= 1 /\ removeCalls = 0) =>
            \/ file.exists /\ file.lines = full
            \/ /\ pc = "exited" /\ exitCode = <<1>>
               /\ ~(/\ file.exists
                    /\ Len(file.lines) < Len(full)
                    /\ file.lines = SubSeq(full, 1, Len(file.lines)))

InterfaceNames == {"eth0", "eth1"}

HasInterfaceLine(out) == \E k \in 1..Len(out) : out[k] \in InterfaceNames

\* C6 (as claimed): when the discovery command failed or its output held no
\* interface line, getInterfaceNameStartingWithSeven returned "", the run
\* exited non-zero and no probe was issued; every probe carries the
\* non-empty interface name of the run.
C6_DiscoveryFailureIsFatal ==
    /\ (disc.ran /\ (disc.err \/ ~HasInterfaceLine(disc.out))) =>
            /\ arpInterface = <<>>
            /\ pc = "exited" /\ exitCode = <<1>>
            /\ probes = <<>>
    /\ \A k \in 1..Len(probes) :
            probes[k].iface # <<>> /\ probes[k].iface = arpInterface

\* C7 (as claimed): when the discovery command ran, createInventoryFile had
\* been called and k8s.inventory held the inventory of this run's nodes and
\* username.
C7_DiscoveryAfterCreate ==
    disc.ran =>
        /\ disc.creates = 1
        /\ disc.inventory =
              [exists |-> TRUE, lines |-> InventoryLines(nodes, ansibleUsername)]

\* C8 (as claimed): no "Working" line is printed between the start and the
\* end of the rendering of the table.
C8_NoSpinnerDuringTable == ~spinDuringTable

\* C9 (as claimed): when discovery ran against the inventory this run wrote
\* for a non-empty node list, its target was the first node, nodes[0].
C9_DiscoveryTargetsFirstNode ==
    (/\ disc.ran
     /\ nodes # <<>>
     /\ disc.inventory =
           [exists |-> TRUE, lines |-> InventoryLines(nodes, ansibleUsername)])
        => DiscoveryTarget(disc.inventory) = <<nodes[1]>>

StopReturned == pc = "clear" \/ (pc = "exited" /\ exitCode = <<0>>)

\* C10: the stop function is called at most once, and exactly once in a run
\* that ends normally; after close(stop) the goroutine prints at most the
\* rest of its current cycle of chars, sends one value on done and
\* terminates only after sending it; the stop function returns only after
\* that value was received, with the goroutine terminated, and a terminated
\* goroutine prints nothing; under fair scheduling every call of the stop
\* function returns.
C10_Handshake ==
    /\ [](stopCalls <= 1 /\ acks <= 1)
    /\ []((pc = "exited" /\ exitCode = <<0>>) => stopCalls = 1)
    /\ [](emitSinceStop <= Len(chars))
    /\ [](spPc = "terminated" => acks = 1)
    /\ [](StopReturned => (acks = 1 /\ spPc = "terminated"))
    /\ [][spPc = "terminated" =>
            (spPc' = "terminated" /\ UNCHANGED <<emitSinceStop, spinDuringTable>>)]_vars
    /\ (stopCalls = 1) ~> StopReturned

\* C10 witness: the run has ended normally after the goroutine, caught by
\* close(stop) at the start of a cycle, printed a whole cycle and then sent
\* its acknowledgement.
C10_Witness ==
    /\ pc = "exited" /\ exitCode = <<0>>
    /\ emitSinceStop = Len(chars)
    /\ acks = 1
    /\ spPc = "terminated"

====
